---- MODULE Spec2Model ----
(***************************************************************************)
(* RemoteInstrument and its capability proxies                             *)
(* (qcodes/instrument/remote.py) as a state machine.                       *)
(*                                                                         *)
(* Python values are modelled as follows.  A str that the code builds or   *)
(* copies (a component name, a documentation text, a dotted path) is a     *)
(* sequence of tokens, so that '+' and str.format are concatenation; a     *)
(* dict is a function on its key set; an attribute that may be absent      *)
(* (_manager) is a sequence of length 0 or 1.  Every operation is one      *)
(* action; what it did (the collaborators it called, in order, and how it  *)
(* ended) is left in the variable last.                                    *)
(***************************************************************************)
EXTENDS Integers, Sequences, FiniteSets, TLC

\* ------------------------------------------------------------------ bounds

\* Allocations (remote ids and proxy generations) handed out in one run.
MaxClock == 3

\* ---------------------------------------------------------- the environment

\* The client's RemoteInstrument objects.
Insts == {"i1", "i2"}

\* Capability names the server copy may expose.
Names == {"a", "b"}

\* Keyword names a constructor call may carry, and the value each one has.
KwKeys == {"visa_address", "range"}

KwValue(k) == IF k = "visa_address" THEN "GPIB::1" ELSE "10"

Kwargs(S) == [k \in S |-> KwValue(k)]

KwargChoices == {Kwargs(S) : S \in SUBSET KwKeys}

ArgChoices == {<<"dev">>}

ServerNameChoices == {"", "srv"}

\* The capability classes (the driver types being proxied).
Classes == {"A", "B"}

\* instrument_class.shared_kwargs: the declared list of shared key names.
shared_kwargs_of(cls) ==
    IF cls = "A" THEN <<"visa_address">> ELSE <<"range", "visa_address">>

\* instrument_class.default_server_name(**kwargs): a pure function of the
\* keyword arguments it is called with.
default_server_name(cls, kwargs) ==
    IF "visa_address" \in DOMAIN kwargs THEN "VisaServer"
    ELSE IF "range" \in DOMAIN kwargs THEN "RangeServer"
    ELSE "Instruments"

CtorInputs ==
    [instrument_class : Classes, server_name : ServerNameChoices,
     args : ArgChoices, kwargs : KwargChoices]

\* ------------------------------------------------------------------ strings

Str(s) == <<s>>

\* -------------------------------------------------------------- descriptors

\* A descriptor's attribute map, in iteration order: <<attribute, value>>.
DocAttrs == << <<"__doc__", Str("doc")>> >>

Desc(S) == [n \in S |-> DocAttrs]

Api(m, p, f) == [methods |-> Desc(m), parameters |-> Desc(p), functions |-> Desc(f)]

\* What the server copy may report as its API in a connect().
ApiChoices ==
    { Api({"a"}, {"a", "b"}, {"b"}),
      Api({"b"}, {}, {"a"}) }

InstNames == {Str("dmm")}

\* The Manager's answers to connect(): failure, or connection_attrs with the
\* remote id the worker assigns.
ConnectReplies(newid, canSucceed) ==
    {[ok |-> FALSE]} \cup
    (IF canSucceed
     THEN {[ok |-> TRUE, name |-> nm, id |-> newid, methods |-> a.methods,
            parameters |-> a.parameters, functions |-> a.functions] :
           nm \in InstNames, a \in ApiChoices}
     ELSE {})

\* ------------------------------------------------------------------- state

VARIABLES
    phase,     \* per instrument: "none" (not constructed), "open" (the
               \*   constructor returned), "failed" (the constructor raised:
               \*   its caller got no object to call anything on)
    ctor,      \* per instrument: the arguments its constructor was called with
    self,      \* per instrument: the object's attributes
    registry,  \* per capability class: the recorded instances
    alive,     \* the Managers whose worker process is an active child
    clock,     \* allocations made so far
    created,   \* every capability proxy built so far
    last       \* the most recent operation: what it called and how it ended

vars == <<phase, ctor, self, registry, alive, clock, created, last>>

NoDict == [x \in {} |-> <<>>]

\* ------------------------------------------------------------------ events

EvDefaultName(cls, kw) ==
    [ev |-> "default_server_name", cls |-> cls, kwargs |-> kw]

EvAcquire(sn, sk) ==
    [ev |-> "get_instrument_server_manager", server_name |-> sn,
     shared_kwargs |-> sk]

EvRecord(cls, i) == [ev |-> "record_instance", cls |-> cls, inst |-> i]

EvConnect(m, i, cls, args, kw) ==
    [ev |-> "connect", manager |-> m, inst |-> i, cls |-> cls, args |-> args,
     kwargs |-> kw]

EvAsk(m, id, func, args, kw) ==
    [ev |-> "ask", manager |-> m, cat |-> "cmd", id |-> id, func |-> func,
     args |-> args, kwargs |-> kw]

EvWrite(m, id, func, args, kw) ==
    [ev |-> "write", manager |-> m, cat |-> "cmd", id |-> id, func |-> func,
     args |-> args, kwargs |-> kw]

EvActiveChildren(m, ans) == [ev |-> "active_children", manager |-> m, alive |-> ans]

EvDelete(m, id) == [ev |-> "delete", manager |-> m, id |-> id]

EvDelManager == [ev |-> "del _manager"]

EvRemove(cls, i) == [ev |-> "remove_instance", cls |-> cls, inst |-> i]

EvRestart(m) == [ev |-> "restart", manager |-> m]

\* The Manager's operations.
ManagerCalls == {"connect", "ask", "write", "delete", "restart"}

\* The record an operation leaves in last: the operation and the instrument
\* it was called on, its target (the key looked up, or the proxy called),
\* the calls it made in order, the exception it raised ("" if it returned),
\* what it returned and what the Manager answered (each <<>> or <<value>>),
\* the text of the exception where an operation makes one, the arguments a
\* proxy's operation was called with, and the keyword arguments of
\* add_parameter and add_function.
Last(op, i, target, log, raised, ret, answer) ==
    [op |-> op, inst |-> i, target |-> target, log |-> log, raised |-> raised,
     ret |-> ret, answer |-> answer, message |-> <<>>, args |-> <<>>,
     kwargs |-> NoDict]

\* ------------------------------------------------------------------ helpers

Put(d, k, v) == [x \in DOMAIN d \cup {k} |-> IF x = k THEN v ELSE d[x]]

Without(d, k) == [x \in DOMAIN d \ {k} |-> d[x]]


\* ------------------------------------------------------ capability proxies

\* A reference to instrument i, as the value of an attribute.
Ref(i) == <<"RemoteInstrument", i>>

\* The loop as it would be if the documentation were rewritten whenever the
\* entry is there, empty or not.
RECURSIVE SetAttrs_always_rewrite(_, _, _, _, _)
SetAttrs_always_rewrite(d, type, iname, attrs, k) ==
    IF k > Len(attrs) THEN d
    ELSE LET attribute == attrs[k][1]
             v0 == attrs[k][2]
             value == IF attribute = "__doc__"
                      THEN <<type, " ">> \o d["name"] \o <<" in RemoteInstrument ">>
                           \o iname \o <<"\n---\n\n">> \o v0
                      ELSE v0
         IN SetAttrs_always_rewrite(Put(d, attribute, value), type, iname, attrs,
                                    k + 1)

\* RemoteComponent.__init__'s loop over attrs.items(), from position k on.
RECURSIVE SetAttrs(_, _, _, _, _)
SetAttrs(d, type, iname, attrs, k) ==
    IF k > Len(attrs) THEN d
    ELSE LET attribute == attrs[k][1]
             v0 == attrs[k][2]
             value == IF attribute = "__doc__" /\ v0 # <<>>
                      THEN <<type, " ">> \o d["name"] \o <<" in RemoteInstrument ">>
                           \o iname \o <<"\n---\n\n">> \o v0
                      ELSE v0
         IN SetAttrs(Put(d, attribute, value), type, iname, attrs, k + 1)

\* RemoteComponent.__init__ for a proxy of class `type`; born and name tell
\* which object it is (two proxies are the same object iff their oid agree).
RemoteComponent(type, name, i, iname, attrs, born) ==
    [type |-> type,
     oid |-> <<born, name>>,
     attr |-> SetAttrs([x \in {"name", "_instrument"} |->
                           IF x = "name" THEN Str(name) ELSE Ref(i)],
                       type, iname, attrs, 1)]

RemoteMethod(name, i, iname, attrs, born) ==
    RemoteComponent("RemoteMethod", name, i, iname, attrs, born)

\* GetLatest(self): the latest-value holder of the parameter that carries it.
GetLatest == <<"<GetLatest object>">>

\* RemoteParameter.__init__: RemoteComponent.__init__, then the holder is
\* stored as get_latest, over an attribute of that name if attrs had one.
RemoteParameter(name, i, iname, attrs, born) ==
    LET p == RemoteComponent("RemoteParameter", name, i, iname, attrs, born)
    IN [p EXCEPT !.attr = Put(p.attr, "get_latest", GetLatest)]

RemoteFunction(name, i, iname, attrs, born) ==
    RemoteComponent("RemoteFunction", name, i, iname, attrs, born)

\* ------------------------------------------------------------ construction

\* The object before __init__ has set anything.
Blank ==
    [_server_name |-> "", _shared_kwargs |-> NoDict, _manager |-> <<>>,
     _instrument_class |-> "", _args |-> <<>>, _kwargs |-> NoDict,
     name |-> <<>>, _id |-> 0,
     _methods |-> NoDict, parameters |-> NoDict, functions |-> NoDict]

NoCtor == [instrument_class |-> "", server_name |-> "", args |-> <<>>, kwargs |-> NoDict]

\* The loop as it would be without its "del kwargs[kwname]".
RECURSIVE PartitionKeep(_, _, _, _)
PartitionKeep(keys, k, shared, kwargs) ==
    IF k > Len(keys) THEN [shared_kwargs |-> shared, kwargs |-> kwargs]
    ELSE IF keys[k] \in DOMAIN kwargs
         THEN PartitionKeep(keys, k + 1, Put(shared, keys[k], kwargs[keys[k]]), kwargs)
         ELSE PartitionKeep(keys, k + 1, shared, kwargs)

\* __init__'s loop over instrument_class.shared_kwargs, from position k on:
\* moves each listed key that is present from kwargs to shared_kwargs.
RECURSIVE Partition(_, _, _, _)
Partition(keys, k, shared, kwargs) ==
    IF k > Len(keys) THEN [shared_kwargs |-> shared, kwargs |-> kwargs]
    ELSE IF keys[k] \in DOMAIN kwargs
         THEN Partition(keys, k + 1, Put(shared, keys[k], kwargs[keys[k]]),
                        Without(kwargs, keys[k]))
         ELSE Partition(keys, k + 1, shared, kwargs)

\* The Manager object for a server identity.
Manager(sn, sk) == [server_name |-> sn, shared_kwargs |-> sk]

\* connect() as it would be if it updated the mappings instead of rebinding
\* them: entries the new descriptors do not name are kept.
BindMerge(obj, i, reply) ==
    LET Merge(old, new) ==
          [n \in DOMAIN old \cup DOMAIN new |->
             IF n \in DOMAIN new THEN new[n] ELSE old[n]]
    IN [obj EXCEPT
          !.name = reply.name,
          !._id = reply.id,
          !._methods = Merge(@, [n \in DOMAIN reply.methods |->
                       RemoteMethod(n, i, reply.name, reply.methods[n], reply.id)]),
          !.parameters = Merge(@, [n \in DOMAIN reply.parameters |->
                       RemoteParameter(n, i, reply.name, reply.parameters[n], reply.id)]),
          !.functions = Merge(@, [n \in DOMAIN reply.functions |->
                       RemoteFunction(n, i, reply.name, reply.functions[n], reply.id)])]

\* connect() as it would be if it kept the proxy it already holds for a name
\* and built proxies only for the names that are new.
BindReuse(obj, i, reply) ==
    [obj EXCEPT
       !.name = reply.name,
       !._id = reply.id,
       !._methods = [n \in DOMAIN reply.methods |->
                       IF n \in DOMAIN obj._methods THEN obj._methods[n]
                       ELSE RemoteMethod(n, i, reply.name, reply.methods[n], reply.id)],
       !.parameters = [n \in DOMAIN reply.parameters |->
                       IF n \in DOMAIN obj.parameters THEN obj.parameters[n]
                       ELSE RemoteParameter(n, i, reply.name, reply.parameters[n],
                                            reply.id)],
       !.functions = [n \in DOMAIN reply.functions |->
                       IF n \in DOMAIN obj.functions THEN obj.functions[n]
                       ELSE RemoteFunction(n, i, reply.name, reply.functions[n],
                                           reply.id)]]

\* The three mappings connect() builds from connection_attrs.
Bind(obj, i, reply) ==
    [obj EXCEPT
       !.name = reply.name,
       !._id = reply.id,
       !._methods = [n \in DOMAIN reply.methods |->
                       RemoteMethod(n, i, reply.name, reply.methods[n], reply.id)],
       !.parameters = [n \in DOMAIN reply.parameters |->
                       RemoteParameter(n, i, reply.name, reply.parameters[n], reply.id)],
       !.functions = [n \in DOMAIN reply.functions |->
                       RemoteFunction(n, i, reply.name, reply.functions[n], reply.id)]]

Proxies(obj) ==
    {obj._methods[n] : n \in DOMAIN obj._methods}
    \cup {obj.parameters[n] : n \in DOMAIN obj.parameters}
    \cup {obj.functions[n] : n \in DOMAIN obj.functions}

Init ==
    /\ phase = [i \in Insts |-> "none"]
    /\ ctor = [i \in Insts |-> NoCtor]
    /\ self = [i \in Insts |-> Blank]
    /\ registry = [c \in Classes |-> {}]
    /\ alive = {}
    /\ clock = 0
    /\ created = {}
    /\ last = Last("none", "", <<>>, <<>>, "", <<>>, <<>>)

\* The Manager's answers to an ask: failure, or a value.  A worker that is
\* not running answers nothing.
AskReplies(m, values) ==
    {[ok |-> FALSE]} \cup
    (IF m \in alive THEN {[ok |-> TRUE, value |-> v] : v \in values} ELSE {})

Values == {Str("v"), Str("w")}

CallArgChoices == {<<Str("x")>>}

CallKwargChoices == {[timeout |-> Str("5")]}

\* The names add_parameter and add_function are called with.
AddNames == Names

\* The first step as it would be if it came after the partition: the default
\* name is asked for with the instance keywords only.
resolve_after_partition(cls, server_name, kwargs) ==
    LET rest == Partition(shared_kwargs_of(cls), 1, NoDict, kwargs).kwargs
    IN IF server_name = ""
       THEN [server_name |-> default_server_name(cls, rest),
             log |-> <<EvDefaultName(cls, rest)>>]
       ELSE [server_name |-> server_name, log |-> <<>>]

\* __init__'s first step: the server name to use, and the call made to get it.
resolve_server_name(cls, server_name, kwargs) ==
    IF server_name = ""
    THEN [server_name |-> default_server_name(cls, kwargs),
          log |-> <<EvDefaultName(cls, kwargs)>>]
    ELSE [server_name |-> server_name, log |-> <<>>]

\* The constructor as it would be if it connected before it registered.
Construct_connect_first(i, Inputs) ==
    /\ phase[i] = "none"
    /\ \E inp \in Inputs, acquired \in BOOLEAN :
       \E reply \in ConnectReplies(clock + 1, acquired /\ clock < MaxClock) :
         LET cls == inp.instrument_class
             res == resolve_server_name(cls, inp.server_name, inp.kwargs)
             part == Partition(shared_kwargs_of(cls), 1, NoDict, inp.kwargs)
             m == Manager(res.server_name, part.shared_kwargs)
             log2 == res.log \o <<EvAcquire(res.server_name, part.shared_kwargs)>>
             obj2 == [Blank EXCEPT !._server_name = res.server_name,
                                   !._shared_kwargs = part.shared_kwargs]
             obj3 == [obj2 EXCEPT !._manager = <<m>>,
                                  !._instrument_class = cls,
                                  !._args = inp.args,
                                  !._kwargs = part.kwargs]
             log3 == log2 \o <<EvConnect(m, i, cls, inp.args, part.kwargs),
                               EvRecord(cls, i)>>
         IN /\ ctor' = [ctor EXCEPT ![i] = inp]
            /\ IF ~acquired
               THEN /\ phase' = [phase EXCEPT ![i] = "failed"]
                    /\ self' = [self EXCEPT ![i] = obj2]
                    /\ last' = Last("__init__", i, <<>>, log2, "ManagerError", <<>>, <<>>)
                    /\ UNCHANGED <<registry, alive, clock, created>>
               ELSE /\ registry' = [registry EXCEPT ![cls] = @ \cup {i}]
                    /\ alive' = alive \cup {m}
                    /\ IF reply.ok
                       THEN /\ phase' = [phase EXCEPT ![i] = "open"]
                            /\ self' = [self EXCEPT ![i] = Bind(obj3, i, reply)]
                            /\ clock' = clock + 1
                            /\ created' = created \cup Proxies(Bind(obj3, i, reply))
                            /\ last' = Last("__init__", i, <<>>, log3, "", <<>>, <<reply>>)
                       ELSE /\ phase' = [phase EXCEPT ![i] = "failed"]
                            /\ self' = [self EXCEPT ![i] = obj3]
                            /\ last' = Last("__init__", i, <<>>, log3, "ManagerError",
                                            <<>>, <<>>)
                            /\ UNCHANGED <<clock, created>>

\* RemoteInstrument(*args, instrument_class=cls, server_name=sn, **kwargs).
\* The environment decides whether the Manager is acquired (its worker is
\* then running) and what its connect() answers; record_instance adds the
\* proxy to the class's registry.
Construct(i, Inputs) ==
    /\ phase[i] = "none"
    /\ \E inp \in Inputs, acquired \in BOOLEAN :
       \E reply \in ConnectReplies(clock + 1, acquired /\ clock < MaxClock) :
         LET cls == inp.instrument_class
             res == resolve_server_name(cls, inp.server_name, inp.kwargs)
             part == Partition(shared_kwargs_of(cls), 1, NoDict, inp.kwargs)
             m == Manager(res.server_name, part.shared_kwargs)
             log2 == res.log \o <<EvAcquire(res.server_name, part.shared_kwargs)>>
             obj2 == [Blank EXCEPT !._server_name = res.server_name,
                                   !._shared_kwargs = part.shared_kwargs]
             obj3 == [obj2 EXCEPT !._manager = <<m>>,
                                  !._instrument_class = cls,
                                  !._args = inp.args,
                                  !._kwargs = part.kwargs]
             log3 == log2 \o <<EvRecord(cls, i),
                               EvConnect(m, i, cls, inp.args, part.kwargs)>>
         IN /\ ctor' = [ctor EXCEPT ![i] = inp]
            /\ IF ~acquired
               THEN /\ phase' = [phase EXCEPT ![i] = "failed"]
                    /\ self' = [self EXCEPT ![i] = obj2]
                    /\ last' = Last("__init__", i, <<>>, log2, "ManagerError", <<>>, <<>>)
                    /\ UNCHANGED <<registry, alive, clock, created>>
               ELSE /\ registry' = [registry EXCEPT ![cls] = @ \cup {i}]
                    /\ alive' = alive \cup {m}
                    /\ IF reply.ok
                       THEN /\ phase' = [phase EXCEPT ![i] = "open"]
                            /\ self' = [self EXCEPT ![i] = Bind(obj3, i, reply)]
                            /\ clock' = clock + 1
                            /\ created' = created \cup Proxies(Bind(obj3, i, reply))
                            /\ last' = Last("__init__", i, <<>>, log3, "", <<>>, <<reply>>)
                       ELSE /\ phase' = [phase EXCEPT ![i] = "failed"]
                            /\ self' = [self EXCEPT ![i] = obj3]
                            /\ last' = Last("__init__", i, <<>>, log3, "ManagerError",
                                            <<>>, <<>>)
                            /\ UNCHANGED <<clock, created>>

\* connect() as it would be if it emptied the capability mappings before it
\* asked the Manager.
Connect_clear_first(i) ==
    /\ phase[i] = "open"
    /\ LET obj == self[i]
           cleared == [obj EXCEPT !._methods = NoDict, !.parameters = NoDict,
                                  !.functions = NoDict]
       IN
       IF obj._manager = <<>>
       THEN /\ last' = Last("connect", i, <<>>, <<>>, "AttributeError", <<>>, <<>>)
            /\ UNCHANGED <<phase, ctor, self, registry, alive, clock, created>>
       ELSE \E reply \in ConnectReplies(clock + 1,
                                        clock < MaxClock /\ obj._manager[1] \in alive) :
              LET log == <<EvConnect(obj._manager[1], i, obj._instrument_class,
                                     obj._args, obj._kwargs)>>
              IN IF reply.ok
                 THEN /\ self' = [self EXCEPT ![i] = Bind(cleared, i, reply)]
                      /\ clock' = clock + 1
                      /\ created' = created \cup Proxies(Bind(cleared, i, reply))
                      /\ last' = Last("connect", i, <<>>, log, "", <<>>, <<reply>>)
                      /\ UNCHANGED <<phase, ctor, registry, alive>>
                 ELSE /\ self' = [self EXCEPT ![i] = cleared]
                      /\ last' = Last("connect", i, <<>>, log, "ManagerError", <<>>, <<>>)
                      /\ UNCHANGED <<phase, ctor, registry, alive, clock, created>>

\* instrument.connect()
Connect(i) ==
    /\ phase[i] = "open"
    /\ LET obj == self[i] IN
       IF obj._manager = <<>>
       THEN /\ last' = Last("connect", i, <<>>, <<>>, "AttributeError", <<>>, <<>>)
            /\ UNCHANGED <<phase, ctor, self, registry, alive, clock, created>>
       ELSE \E reply \in ConnectReplies(clock + 1,
                                        clock < MaxClock /\ obj._manager[1] \in alive) :
              LET log == <<EvConnect(obj._manager[1], i, obj._instrument_class,
                                     obj._args, obj._kwargs)>>
              IN IF reply.ok
                 THEN /\ self' = [self EXCEPT ![i] = Bind(obj, i, reply)]
                      /\ clock' = clock + 1
                      /\ created' = created \cup Proxies(Bind(obj, i, reply))
                      /\ last' = Last("connect", i, <<>>, log, "", <<>>, <<reply>>)
                      /\ UNCHANGED <<phase, ctor, registry, alive>>
                 ELSE /\ last' = Last("connect", i, <<>>, log, "ManagerError", <<>>, <<>>)
                      /\ UNCHANGED <<phase, ctor, self, registry, alive, clock, created>>

\* _ask_server as it would be if it looked the Manager up again when its own
\* reference is gone.
_ask_server_reacquire(obj, func_name, args, kwargs, reply) ==
    LET m == IF obj._manager = <<>>
             THEN Manager(obj._server_name, obj._shared_kwargs)
             ELSE obj._manager[1]
    IN [log |-> <<EvAsk(m, obj._id, func_name, args, kwargs)>>,
        raised |-> IF reply.ok THEN "" ELSE "RemoteError",
        ret |-> IF reply.ok THEN <<reply.value>> ELSE <<>>]

\* _ask_server as it would be if the remote id were the one the first
\* connect() of any instrument was given.
_ask_server_first_id(obj, func_name, args, kwargs, reply) ==
    IF obj._manager = <<>>
    THEN [log |-> <<>>, raised |-> "AttributeError", ret |-> <<>>]
    ELSE [log |-> <<EvAsk(obj._manager[1], 1, func_name, args, kwargs)>>,
          raised |-> IF reply.ok THEN "" ELSE "RemoteError",
          ret |-> IF reply.ok THEN <<reply.value>> ELSE <<>>]

\* _ask_server as it would be if it sent a failed request once more.
_ask_server_retry(obj, func_name, args, kwargs, reply) ==
    IF obj._manager = <<>>
    THEN [log |-> <<>>, raised |-> "AttributeError", ret |-> <<>>]
    ELSE LET ask == EvAsk(obj._manager[1], obj._id, func_name, args, kwargs)
         IN [log |-> IF reply.ok THEN <<ask>> ELSE <<ask, ask>>,
             raised |-> IF reply.ok THEN "" ELSE "RemoteError",
             ret |-> IF reply.ok THEN <<reply.value>> ELSE <<>>]

\* instrument._ask_server(func_name, *args, **kwargs), given the Manager's
\* answer: what was called, how it ended and what it returned.
_ask_server(obj, func_name, args, kwargs, reply) ==
    IF obj._manager = <<>>
    THEN [log |-> <<>>, raised |-> "AttributeError", ret |-> <<>>]
    ELSE [log |-> <<EvAsk(obj._manager[1], obj._id, func_name, args, kwargs)>>,
          raised |-> IF reply.ok THEN "" ELSE "RemoteError",
          ret |-> IF reply.ok THEN <<reply.value>> ELSE <<>>]

\* instrument._write_server(func_name, *args, **kwargs): nothing is waited
\* for and nothing returned.
_write_server(obj, func_name, args, kwargs) ==
    IF obj._manager = <<>>
    THEN [log |-> <<>>, raised |-> "AttributeError", ret |-> <<>>]
    ELSE [log |-> <<EvWrite(obj._manager[1], obj._id, func_name, args, kwargs)>>,
          raised |-> "", ret |-> <<>>]

\* A direct instrument._write_server('set', name, value)
WriteServer(i) ==
    /\ phase[i] = "open"
    /\ \E name \in Names, value \in Values :
         LET r == _write_server(self[i], Str("set"), <<Str(name), value>>, NoDict)
         IN last' = [Last("_write_server", i, name, r.log, r.raised, <<>>, <<>>)
                       EXCEPT !.args = <<value>>]
    /\ UNCHANGED <<phase, ctor, self, registry, alive, clock, created>>

\* The answers the environment may give to an ask of instrument i.
RepliesFor(i, values) ==
    IF self[i]._manager = <<>> THEN {[ok |-> FALSE]}
    ELSE AskReplies(self[i]._manager[1], values)

\* The descriptors the Manager may answer an add_parameter or add_function
\* with.
UnitAttrs == << <<"units", Str("V")>> >>

AddAttrChoices == {DocAttrs, UnitAttrs}

\* Descriptors with and without documentation, the documentation empty or
\* not, alone or with another attribute.
EmptyDocAttrs == << <<"__doc__", <<>> >>, <<"units", Str("V")>> >>

DocUnitAttrs == << <<"units", Str("V")>>, <<"__doc__", Str("doc")>> >>

\* A descriptor that carries a 'name' attribute.
NamedAttrs(n) == << <<"name", Str(n)>>, <<"__doc__", Str("doc")>> >>

\* A descriptor whose 'name' attribute comes after its documentation.
DocThenNameAttrs == << <<"__doc__", Str("doc")>>, <<"name", Str("other")>> >>

\* A descriptor that carries a 'get_latest' attribute.
LatestAttrs == << <<"get_latest", Str("x")>>, <<"units", Str("V")>> >>

CopyAttrChoices ==
    {DocAttrs, UnitAttrs, EmptyDocAttrs, DocUnitAttrs, LatestAttrs,
     NamedAttrs("other"), DocThenNameAttrs}

\* Descriptors of any content: those above, and those with a 'name' that is
\* the name asked for, another capability's name, or no capability's name.
AnyAttrChoices == AddAttrChoices \cup {NamedAttrs(n) : n \in Names \cup {"other"}}

\* The keyword arguments add_parameter and add_function are called with.
AddKwargChoices == {[units |-> Str("V")]}

\* add_parameter as it would be if it started the mapping afresh.
add_parameter_afresh(obj, i, name, attrs, born) ==
    [obj EXCEPT !.parameters =
       Put(NoDict, name, RemoteParameter(name, i, obj.name, attrs, born))]

\* add_parameter as it would be if a name already held kept its proxy.
add_parameter_keep_first(obj, i, name, attrs, born) ==
    IF name \in DOMAIN obj.parameters THEN obj
    ELSE [obj EXCEPT !.parameters =
            Put(@, name, RemoteParameter(name, i, obj.name, attrs, born))]

\* self.parameters[name] = RemoteParameter(name, self, attrs)
add_parameter(obj, i, name, attrs, born) ==
    [obj EXCEPT !.parameters =
       Put(@, name, RemoteParameter(name, i, obj.name, attrs, born))]

\* add_function as it would be if it stored the proxy among the parameters.
add_function_as_parameter(obj, i, name, attrs, born) ==
    [obj EXCEPT !.parameters =
       Put(@, name, RemoteFunction(name, i, obj.name, attrs, born))]

\* self.functions[name] = RemoteFunction(name, self, attrs)
add_function(obj, i, name, attrs, born) ==
    [obj EXCEPT !.functions =
       Put(@, name, RemoteFunction(name, i, obj.name, attrs, born))]

\* instrument.add_parameter(name, **kwargs), the Manager answering with a
\* descriptor of Attrs
AddParameter(i, Attrs) ==
    /\ phase[i] = "open"
    /\ \E name \in AddNames, kwargs \in AddKwargChoices :
       \E reply \in RepliesFor(i, IF clock < MaxClock THEN Attrs ELSE {}) :
         LET r == _ask_server(self[i], Str("add_parameter"), <<Str(name)>>, kwargs, reply)
             p == RemoteParameter(name, i, self[i].name, reply.value, clock + 1)
         IN /\ last' = [Last("add_parameter", i, name, r.log, r.raised, <<>>, r.ret)
                          EXCEPT !.kwargs = kwargs]
            /\ IF r.raised = ""
               THEN /\ self' = [self EXCEPT
                                  ![i] = add_parameter(@, i, name, reply.value, clock + 1)]
                    /\ clock' = clock + 1
                    /\ created' = created \cup {p}
               ELSE UNCHANGED <<self, clock, created>>
            /\ UNCHANGED <<phase, ctor, registry, alive>>

\* instrument.add_function(name, **kwargs), the Manager answering with a
\* descriptor of Attrs
AddFunction(i, Attrs) ==
    /\ phase[i] = "open"
    /\ \E name \in AddNames, kwargs \in AddKwargChoices :
       \E reply \in RepliesFor(i, IF clock < MaxClock THEN Attrs ELSE {}) :
         LET r == _ask_server(self[i], Str("add_function"), <<Str(name)>>, kwargs, reply)
             p == RemoteFunction(name, i, self[i].name, reply.value, clock + 1)
         IN /\ last' = [Last("add_function", i, name, r.log, r.raised, <<>>, r.ret)
                          EXCEPT !.kwargs = kwargs]
            /\ IF r.raised = ""
               THEN /\ self' = [self EXCEPT
                                  ![i] = add_function(@, i, name, reply.value, clock + 1)]
                    /\ clock' = clock + 1
                    /\ created' = created \cup {p}
               ELSE UNCHANGED <<self, clock, created>>
            /\ UNCHANGED <<phase, ctor, registry, alive>>

\* instrument.instances(): the registry collection of the instrument's
\* capability class.
instances(obj, reg) == reg[obj._instrument_class]

\* close() as it would be without its liveness test: the delete is always sent.
close_unchecked(obj, i, reg, isAlive, deleted) ==
    LET cls == obj._instrument_class
        m == obj._manager[1]
        removed == [reg EXCEPT ![cls] = @ \ {i}]
    IN IF obj._manager = <<>>
       THEN [obj |-> obj, registry |-> removed,
             log |-> <<EvRemove(cls, i)>>, raised |-> ""]
       ELSE IF ~(isAlive /\ deleted)
       THEN [obj |-> obj, registry |-> reg,
             log |-> <<EvActiveChildren(m, isAlive), EvDelete(m, obj._id)>>,
             raised |-> "ManagerError"]
       ELSE [obj |-> [obj EXCEPT !._manager = <<>>], registry |-> removed,
             log |-> <<EvActiveChildren(m, TRUE), EvDelete(m, obj._id),
                       EvDelManager, EvRemove(cls, i)>>,
             raised |-> ""]

\* close() as it would be if it dropped its Manager reference first and sent
\* the delete through a reference taken before.
close_drop_first(obj, i, reg, isAlive, deleted) ==
    LET cls == obj._instrument_class
        m == obj._manager[1]
        removed == [reg EXCEPT ![cls] = @ \ {i}]
    IN IF obj._manager = <<>>
       THEN [obj |-> obj, registry |-> removed,
             log |-> <<EvRemove(cls, i)>>, raised |-> ""]
       ELSE IF ~isAlive
       THEN [obj |-> [obj EXCEPT !._manager = <<>>], registry |-> removed,
             log |-> <<EvDelManager, EvActiveChildren(m, FALSE), EvRemove(cls, i)>>,
             raised |-> ""]
       ELSE IF ~deleted
       THEN [obj |-> [obj EXCEPT !._manager = <<>>], registry |-> reg,
             log |-> <<EvDelManager, EvActiveChildren(m, TRUE), EvDelete(m, obj._id)>>,
             raised |-> "ManagerError"]
       ELSE [obj |-> [obj EXCEPT !._manager = <<>>], registry |-> removed,
             log |-> <<EvDelManager, EvActiveChildren(m, TRUE), EvDelete(m, obj._id),
                       EvRemove(cls, i)>>,
             raised |-> ""]

\* close() as it would be if the delete named the remote id of the
\* instrument's first connect().
close_first_id(obj, i, reg, isAlive, deleted) ==
    LET cls == obj._instrument_class
        m == obj._manager[1]
        removed == [reg EXCEPT ![cls] = @ \ {i}]
    IN IF obj._manager = <<>>
       THEN [obj |-> obj, registry |-> removed,
             log |-> <<EvRemove(cls, i)>>, raised |-> ""]
       ELSE IF ~isAlive
       THEN [obj |-> [obj EXCEPT !._manager = <<>>], registry |-> removed,
             log |-> <<EvActiveChildren(m, FALSE), EvDelManager, EvRemove(cls, i)>>,
             raised |-> ""]
       ELSE IF ~deleted
       THEN [obj |-> obj, registry |-> reg,
             log |-> <<EvActiveChildren(m, TRUE), EvDelete(m, 1)>>,
             raised |-> "ManagerError"]
       ELSE [obj |-> [obj EXCEPT !._manager = <<>>], registry |-> removed,
             log |-> <<EvActiveChildren(m, TRUE), EvDelete(m, 1),
                       EvDelManager, EvRemove(cls, i)>>,
             raised |-> ""]

\* instrument.close(), given whether the worker is an active child and
\* whether the Manager's delete goes through: the object and the registry
\* afterwards, what was called and how it ended.
close(obj, i, reg, isAlive, deleted) ==
    LET cls == obj._instrument_class
        m == obj._manager[1]
        removed == [reg EXCEPT ![cls] = @ \ {i}]
    IN IF obj._manager = <<>>
       THEN [obj |-> obj, registry |-> removed,
             log |-> <<EvRemove(cls, i)>>, raised |-> ""]
       ELSE IF ~isAlive
       THEN [obj |-> [obj EXCEPT !._manager = <<>>], registry |-> removed,
             log |-> <<EvActiveChildren(m, FALSE), EvDelManager, EvRemove(cls, i)>>,
             raised |-> ""]
       ELSE IF ~deleted
       THEN [obj |-> obj, registry |-> reg,
             log |-> <<EvActiveChildren(m, TRUE), EvDelete(m, obj._id)>>,
             raised |-> "ManagerError"]
       ELSE [obj |-> [obj EXCEPT !._manager = <<>>], registry |-> removed,
             log |-> <<EvActiveChildren(m, TRUE), EvDelete(m, obj._id),
                       EvDelManager, EvRemove(cls, i)>>,
             raised |-> ""]

\* Whether instrument i's worker is among mp.active_children().
IsAlive(i) == self[i]._manager # <<>> /\ self[i]._manager[1] \in alive

Close(i) ==
    /\ phase[i] = "open"
    /\ \E deleted \in BOOLEAN :
         LET r == close(self[i], i, registry, IsAlive(i), deleted)
         IN /\ self' = [self EXCEPT ![i] = r.obj]
            /\ registry' = r.registry
            /\ last' = Last("close", i, <<>>, r.log, r.raised, <<>>, <<>>)
            /\ UNCHANGED <<phase, ctor, alive, clock, created>>

\* instrument.restart()
Restart(i) ==
    /\ phase[i] = "open"
    /\ \E deleted \in BOOLEAN :
         LET r == close(self[i], i, registry, IsAlive(i), deleted)
             after == IF r.raised # "" THEN [log |-> <<>>, raised |-> r.raised]
                      ELSE IF r.obj._manager = <<>>
                      THEN [log |-> <<>>, raised |-> "AttributeError"]
                      ELSE [log |-> <<EvRestart(r.obj._manager[1])>>, raised |-> ""]
         IN /\ self' = [self EXCEPT ![i] = r.obj]
            /\ registry' = r.registry
            /\ last' = Last("restart", i, <<>>, r.log \o after.log, after.raised,
                            <<>>, <<>>)
            /\ UNCHANGED <<phase, ctor, alive, clock, created>>

\* The worker process of a Manager exits.
WorkerDies ==
    /\ \E m \in alive : alive' = alive \ {m}
    /\ UNCHANGED <<phase, ctor, self, registry, clock, created, last>>

\* ------------------------------------------------------------------ lookup

\* The list as it would be with its first two entries exchanged.
delegate_attr_dicts_swapped == <<"parameters", "_methods", "functions">>

\* RemoteInstrument.delegate_attr_dicts
delegate_attr_dicts == <<"_methods", "parameters", "functions">>

\* DelegateAttributes.__getattr__: the dicts named by delegate_attr_dicts
\* are searched in order, from position k on.
RECURSIVE Delegate(_, _, _)
Delegate(obj, key, k) ==
    IF k > Len(delegate_attr_dicts) THEN <<>>
    ELSE LET d == obj[delegate_attr_dicts[k]]
         IN IF key \in DOMAIN d THEN <<d[key]>> ELSE Delegate(obj, key, k + 1)

\* getattr(instrument, key) for a capability name
Getattr(i) ==
    /\ phase[i] = "open"
    /\ \E key \in Names :
         LET r == Delegate(self[i], key, 1)
         IN last' = Last("getattr", i, key, <<>>,
                         IF r = <<>> THEN "AttributeError" ELSE "", r, <<>>)
    /\ UNCHANGED <<phase, ctor, self, registry, alive, clock, created>>

\* str() of the KeyError a dict raises for a missing key: the key's repr.
KeyErrorStr(key) == <<"'", key, "'">>

\* instrument[key] as it would be if functions were tried before parameters.
__getitem__functions_first(obj, key) ==
    IF key \in DOMAIN obj.functions
    THEN [raised |-> "", message |-> <<>>, ret |-> <<obj.functions[key]>>]
    ELSE IF key \in DOMAIN obj.parameters
    THEN [raised |-> "", message |-> <<>>, ret |-> <<obj.parameters[key]>>]
    ELSE [raised |-> "KeyError", message |-> KeyErrorStr(key), ret |-> <<>>]

\* RemoteInstrument.__getitem__(key): self.parameters[key], and on its
\* KeyError self.functions[key], whose KeyError is the caller's.
__getitem__(obj, key) ==
    IF key \in DOMAIN obj.parameters
    THEN [raised |-> "", message |-> <<>>, ret |-> <<obj.parameters[key]>>]
    ELSE IF key \in DOMAIN obj.functions
    THEN [raised |-> "", message |-> <<>>, ret |-> <<obj.functions[key]>>]
    ELSE [raised |-> "KeyError", message |-> KeyErrorStr(key), ret |-> <<>>]

\* The keys looked up by index: the capability names and one no descriptor has.
LookupKeys == Names \cup {"missing"}

\* instrument[key]
GetItem(i) ==
    /\ phase[i] = "open"
    /\ \E key \in LookupKeys :
         LET r == __getitem__(self[i], key)
         IN last' = [Last("getitem", i, key, <<>>, r.raised, r.ret, <<>>)
                       EXCEPT !.message = r.message]
    /\ UNCHANGED <<phase, ctor, self, registry, alive, clock, created>>

\* -------------------------------------------------------- proxy operations

\* The instrument a proxy forwards to.
Owner(p) == p.attr["_instrument"][2]

\* An operation of proxy p, called with the arguments given, that is one
\* _ask_server(func_name, *args, **kwargs), and returns its result or (set)
\* returns nothing.
Forward(op, p, given, func_name, args, kwargs, returns) ==
    \E reply \in RepliesFor(Owner(p), Values) :
      LET r == _ask_server(self[Owner(p)], func_name, args, kwargs, reply)
      IN /\ last' = [Last(op, Owner(p), p, r.log, r.raised,
                          IF returns THEN r.ret ELSE <<>>, r.ret)
                       EXCEPT !.args = given]
         /\ UNCHANGED <<phase, ctor, self, registry, alive, clock, created>>

\* The same for an operation called with keyword arguments too.
ForwardKw(op, p, given, givenkw, func_name, args, kwargs, returns) ==
    \E reply \in RepliesFor(Owner(p), Values) :
      LET r == _ask_server(self[Owner(p)], func_name, args, kwargs, reply)
      IN /\ last' = [Last(op, Owner(p), p, r.log, r.raised,
                          IF returns THEN r.ret ELSE <<>>, r.ret)
                       EXCEPT !.args = given, !.kwargs = givenkw]
         /\ UNCHANGED <<phase, ctor, self, registry, alive, clock, created>>

\* __call__ as it would be if only the positional arguments were passed on.
MethodCall_drop_kwargs ==
    \E p \in created, args \in CallArgChoices, kwargs \in CallKwargChoices :
      /\ p.type = "RemoteMethod"
      /\ ForwardKw("method", p, args, kwargs, p.attr["name"], args, NoDict, TRUE)

\* RemoteMethod.__call__(*args, **kwargs)
MethodCall ==
    \E p \in created, args \in CallArgChoices, kwargs \in CallKwargChoices :
      /\ p.type = "RemoteMethod"
      /\ ForwardKw("method", p, args, kwargs, p.attr["name"], args, kwargs, TRUE)

\* get() as it would be without its return.
ParameterGet_no_return ==
    \E p \in created :
      /\ p.type = "RemoteParameter"
      /\ Forward("get", p, <<>>, Str("get"), <<p.attr["name"]>>, NoDict, FALSE)

\* RemoteParameter.get()
ParameterGet ==
    \E p \in created :
      /\ p.type = "RemoteParameter"
      /\ Forward("get", p, <<>>, Str("get"), <<p.attr["name"]>>, NoDict, TRUE)

\* set() as it would be with '_ask_server' changed to '_write_server'.
ParameterSet_write ==
    \E p \in created, value \in Values :
      /\ p.type = "RemoteParameter"
      /\ LET r == _write_server(self[Owner(p)], Str("set"),
                                <<p.attr["name"], value>>, NoDict)
         IN last' = [Last("set", Owner(p), p, r.log, r.raised, <<>>, <<>>)
                       EXCEPT !.args = <<value>>]
      /\ UNCHANGED <<phase, ctor, self, registry, alive, clock, created>>

\* RemoteParameter.set(value)
ParameterSet ==
    \E p \in created, value \in Values :
      /\ p.type = "RemoteParameter"
      /\ Forward("set", p, <<value>>, Str("set"), <<p.attr["name"], value>>, NoDict,
                 FALSE)

\* RemoteFunction.__call__(*args)
FunctionCall ==
    \E p \in created, args \in CallArgChoices :
      /\ p.type = "RemoteFunction"
      /\ Forward("call", p, args, Str("call"), <<p.attr["name"]>> \o args, NoDict,
                 TRUE)

\* call() as it would be without its return.
FunctionCallAlias_no_return ==
    \E p \in created, args \in CallArgChoices :
      /\ p.type = "RemoteFunction"
      /\ Forward("call_alias", p, args, Str("call"), <<p.attr["name"]>> \o args,
                 NoDict, FALSE)

\* RemoteFunction.call(*args): return self.__call__(*args)
FunctionCallAlias ==
    \E p \in created, args \in CallArgChoices :
      /\ p.type = "RemoteFunction"
      /\ Forward("call_alias", p, args, Str("call"), <<p.attr["name"]>> \o args,
                 NoDict, TRUE)

\* The attribute paths of getattr, setattr and callattr.
AttrPaths == {Str("units")}

\* RemoteParameter._latest()
ParameterLatest ==
    \E p \in created :
      /\ p.type = "RemoteParameter"
      /\ Forward("_latest", p, <<>>, Str("callattr"),
                 <<p.attr["name"] \o <<"._latest">> >>, NoDict, TRUE)

\* What the server copy's _latest() answers: the value and its time.
LatestStates == {[value |-> v, ts |-> Str("t0")] : v \in Values}

\* parameter.get_latest(): the holder made in RemoteParameter.__init__ reads
\* parameter._latest() and returns the value in it.
GetLatestGet ==
    \E p \in created :
      /\ p.type = "RemoteParameter"
      /\ \E reply \in RepliesFor(Owner(p), LatestStates) :
           LET r == _ask_server(self[Owner(p)], Str("callattr"),
                                <<p.attr["name"] \o <<"._latest">> >>, NoDict, reply)
           IN last' = Last("get_latest", Owner(p), p, r.log, r.raised,
                           IF r.raised = "" THEN <<r.ret[1].value>> ELSE <<>>, r.ret)
      /\ UNCHANGED <<phase, ctor, self, registry, alive, clock, created>>

\* snapshot() as it would be if only snapshot(update=True) went to the server.
ParameterSnapshot_cached ==
    \E p \in created, update \in BOOLEAN :
      /\ p.type = "RemoteParameter"
      /\ IF update
         THEN Forward("snapshot", p, <<update>>, Str("callattr"),
                      <<p.attr["name"] \o <<".snapshot">>, update>>, NoDict, TRUE)
         ELSE /\ last' = [Last("snapshot", Owner(p), p, <<>>, "", <<Str("v")>>, <<>>)
                           EXCEPT !.args = <<update>>]
              /\ UNCHANGED <<phase, ctor, self, registry, alive, clock, created>>

\* RemoteParameter.snapshot(update=False)
ParameterSnapshot ==
    \E p \in created, update \in BOOLEAN :
      /\ p.type = "RemoteParameter"
      /\ Forward("snapshot", p, <<update>>, Str("callattr"),
                 <<p.attr["name"] \o <<".snapshot">>, update>>, NoDict, TRUE)

\* RemoteParameter.setattr(attr, value)
ParameterSetattr ==
    \E p \in created, attr \in AttrPaths, value \in Values :
      /\ p.type = "RemoteParameter"
      /\ Forward("setattr", p, <<attr, value>>, Str("setattr"),
                 <<p.attr["name"] \o <<".">> \o attr, value>>, NoDict, FALSE)

\* getattr() as it would be if it read the proxy's own copy of the attribute.
ParameterGetattr_local ==
    \E p \in created, attr \in AttrPaths :
      /\ p.type = "RemoteParameter"
      /\ last' = [Last("getattr_", Owner(p), p, <<>>, "", <<Str("v")>>, <<>>)
                    EXCEPT !.args = <<attr>>]
      /\ UNCHANGED <<phase, ctor, self, registry, alive, clock, created>>

\* RemoteParameter.getattr(attr)
ParameterGetattr ==
    \E p \in created, attr \in AttrPaths :
      /\ p.type = "RemoteParameter"
      /\ Forward("getattr_", p, <<attr>>, Str("getattr"),
                 <<p.attr["name"] \o <<".">> \o attr>>, NoDict, TRUE)

\* RemoteParameter.callattr(attr, *args, **kwargs)
ParameterCallattr ==
    \E p \in created, attr \in AttrPaths, args \in CallArgChoices,
       kwargs \in CallKwargChoices :
      /\ p.type = "RemoteParameter"
      /\ ForwardKw("callattr", p, <<attr>> \o args, kwargs, Str("callattr"),
                   <<p.attr["name"] \o <<".">> \o attr>> \o args, kwargs, TRUE)

\* An operation of proxy p that the base class carries out on the proxy's
\* own attributes: no call is made, and it returns or raises as the base
\* class decides.
Local(op, p, given, Outcomes) ==
    /\ \E raised \in Outcomes :
         last' = [Last(op, Owner(p), p, <<>>, raised, <<>>, <<>>)
                    EXCEPT !.args = given]
    /\ UNCHANGED <<phase, ctor, self, registry, alive, clock, created>>

\* The arguments of sweep(start, stop, step) and the slice of parameter[...].
SweepArgChoices == {<<Str("0"), Str("10"), Str("1")>>}

\* validate() as it would be if the value were sent to the server copy's
\* validate.
ParameterValidate_remote ==
    \E p \in created, value \in Values :
      /\ p.type = "RemoteParameter"
      /\ Forward("validate", p, <<value>>, Str("callattr"),
                 <<p.attr["name"] \o <<".validate">>, value>>, NoDict, TRUE)

\* RemoteParameter.validate(value): Parameter.validate(self, value)
ParameterValidate ==
    \E p \in created, value \in Values :
      /\ p.type = "RemoteParameter"
      /\ Local("validate", p, <<value>>, {"", "ValueError"})

\* RemoteParameter.sweep(*args, **kwargs): Parameter.sweep(self, ...)
ParameterSweep ==
    \E p \in created, args \in SweepArgChoices :
      /\ p.type = "RemoteParameter"
      /\ Local("sweep", p, args, {""})

\* RemoteParameter.__getitem__(keys): Parameter.__getitem__(self, keys)
ParameterGetItem ==
    \E p \in created, keys \in SweepArgChoices :
      /\ p.type = "RemoteParameter"
      /\ Local("index", p, keys, {""})

\* RemoteFunction.validate(*args): Function.validate(self, *args)
FunctionValidate ==
    \E p \in created, args \in CallArgChoices :
      /\ p.type = "RemoteFunction"
      /\ Local("function_validate", p, args, {"", "TypeError"})

\* --------------------------------------------------------- specifications

\* The constructor calls of the life-cycle specification.
LifeInputs ==
    {inp \in CtorInputs : /\ inp.instrument_class = "A"
                          /\ inp.kwargs = Kwargs(KwKeys)}

\* The instruments of the life-cycle specification.
LifeInsts == {"i1"}

\* One instrument from construction on, with every operation.
Next ==
    \/ \E i \in LifeInsts : Construct(i, LifeInputs)
    \/ \E i \in LifeInsts : Connect(i)
    \/ \E i \in LifeInsts : AddParameter(i, {DocAttrs})
    \/ \E i \in LifeInsts : AddFunction(i, {DocAttrs})
    \/ \E i \in LifeInsts : Close(i)
    \/ \E i \in LifeInsts : Restart(i)
    \/ \E i \in LifeInsts : Getattr(i)
    \/ \E i \in LifeInsts : GetItem(i)
    \/ WorkerDies
    \/ MethodCall
    \/ ParameterGet
    \/ ParameterSet
    \/ FunctionCall

Spec == Init /\ [][Next]_vars

\* The constructor call of the capability specification.
OpsInputs == {inp \in LifeInputs : inp.server_name = ""}

\* One instrument, constructed, extended and closed, and every operation of
\* its capability proxies.
NextOps ==
    \/ \E i \in LifeInsts : Construct(i, OpsInputs)
    \/ \E i \in LifeInsts : AddParameter(i, AddAttrChoices)
    \/ \E i \in LifeInsts : AddFunction(i, {DocAttrs})
    \/ \E i \in LifeInsts : Close(i)
    \/ MethodCall
    \/ ParameterGet
    \/ ParameterSet
    \/ ParameterLatest
    \/ ParameterSnapshot
    \/ ParameterSetattr
    \/ ParameterGetattr
    \/ ParameterCallattr
    \/ FunctionCall
    \/ ParameterValidate
    \/ ParameterSweep
    \/ ParameterGetItem
    \/ FunctionValidate

SpecOps == Init /\ [][NextOps]_vars

\* One instrument, constructed, connected again and closed, and every
\* operation of its proxies that goes to the server.
NextCalls ==
    \/ \E i \in LifeInsts : Construct(i, OpsInputs)
    \/ \E i \in LifeInsts : Connect(i)
    \/ \E i \in LifeInsts : Close(i)
    \/ MethodCall
    \/ ParameterGet
    \/ ParameterSet
    \/ ParameterLatest
    \/ GetLatestGet
    \/ ParameterSnapshot
    \/ ParameterSetattr
    \/ ParameterGetattr
    \/ ParameterCallattr
    \/ FunctionCall
    \/ FunctionCallAlias

SpecCalls == Init /\ [][NextCalls]_vars

\* One instrument whose add_parameter and add_function are answered with
\* the descriptors of CopyAttrChoices.
NextCopy ==
    \/ \E i \in LifeInsts : Construct(i, OpsInputs)
    \/ \E i \in LifeInsts : AddParameter(i, CopyAttrChoices)
    \/ \E i \in LifeInsts : AddFunction(i, CopyAttrChoices)
    \/ \E i \in LifeInsts : GetItem(i)

SpecCopy == Init /\ [][NextCopy]_vars

\* Two instruments, on one Manager or on two, constructed, connected again
\* and used in any order.
NextTwo ==
    \/ \E i \in Insts : Construct(i, LifeInputs)
    \/ \E i \in Insts : Connect(i)
    \/ \E i \in Insts : WriteServer(i)
    \/ MethodCall
    \/ ParameterGet
    \/ FunctionCall

SpecTwo == Init /\ [][NextTwo]_vars

\* One instrument whose add_parameter and add_function are answered with
\* descriptors of any content, and the requests of the proxies.
NextAttrs ==
    \/ \E i \in LifeInsts : Construct(i, OpsInputs)
    \/ \E i \in LifeInsts : AddParameter(i, AnyAttrChoices)
    \/ \E i \in LifeInsts : AddFunction(i, AnyAttrChoices)
    \/ \E i \in LifeInsts : GetItem(i)
    \/ MethodCall
    \/ ParameterGet
    \/ ParameterSet
    \/ ParameterGetattr
    \/ FunctionCall

SpecAttrs == Init /\ [][NextAttrs]_vars

\* Construction with every constructor call of CtorInputs, and connect().
NextInit ==
    \/ \E i \in Insts : Construct(i, CtorInputs)
    \/ \E i \in Insts : Connect(i)

SpecInit == Init /\ [][NextInit]_vars

\* ------------------------------------------------------------------ claims

\* The indices of the events of kind ev in a log.
Events(log, ev) == {k \in 1..Len(log) : log[k].ev = ev}

\* Whether a log holds a call of the Manager.
CallsManager(log) == \E k \in 1..Len(log) : log[k].ev \in ManagerCalls

\* The last operation was a connect (the constructor's or a later one) that
\* returned.
Connected == last.op \in {"__init__", "connect"} /\ last.raised = ""

\* The proxies of category cat are of this class.
ProxyType(cat) ==
    IF cat = "_methods" THEN "RemoteMethod"
    ELSE IF cat = "parameters" THEN "RemoteParameter"
    ELSE "RemoteFunction"

\* The descriptors connection_attrs holds for category cat.
Descriptors(ans, cat) == IF cat = "_methods" THEN ans.methods ELSE ans[cat]

Categories == {"_methods", "parameters", "functions"}

\* C1: after a connect(), each of the three mappings has exactly the names of
\* the descriptors the Manager returned for its category in that connect(),
\* and each name maps to one proxy of the category's class, built for that
\* name and owned by the instrument.
C1_ConnectMirrorsDescriptors ==
    Connected =>
      \A cat \in Categories :
        LET d == self[last.inst][cat]
        IN /\ DOMAIN d = DOMAIN Descriptors(last.answer[1], cat)
           /\ \A n \in DOMAIN d : /\ d[n].type = ProxyType(cat)
                                  /\ d[n].oid[2] = n
                                  /\ Owner(d[n]) = last.inst

\* A later connect() returned descriptors in all three categories, and a
\* name the instrument had before is not among the parameters any more.
C1_Witness ==
    /\ Connected
    /\ last.op = "connect"
    /\ \A cat \in Categories : DOMAIN self[last.inst][cat] # {}
    /\ \E p \in created : /\ Owner(p) = last.inst
                          /\ p.type = "RemoteFunction"
                          /\ p.oid[2] \notin DOMAIN self[last.inst].functions

\* C2: unqualified lookup of a name returns the proxy of the first of
\* methods, parameters, functions that holds the name.
C2_LookupOrder ==
    last.op = "getattr" =>
      LET obj == self[last.inst]
          key == last.target
      IN /\ key \in DOMAIN obj._methods => last.ret = <<obj._methods[key]>>
         /\ key \notin DOMAIN obj._methods /\ key \in DOMAIN obj.parameters
              => last.ret = <<obj.parameters[key]>>
         /\ key \notin DOMAIN obj._methods /\ key \notin DOMAIN obj.parameters
              /\ key \in DOMAIN obj.functions
              => last.ret = <<obj.functions[key]>>

\* A name held by all three categories, the function added by add_function,
\* was looked up.
C2_Witness ==
    /\ last.op = "getattr"
    /\ LET obj == self[last.inst]
       IN /\ last.target \in DOMAIN obj._methods
          /\ last.target \in DOMAIN obj.parameters
          /\ last.target \in DOMAIN obj.functions
          /\ obj.functions[last.target].oid[1] # obj._id

\* A step that is a connect() of an instrument that was connected before.
Reconnects(i) ==
    /\ clock' = clock + 1
    /\ last'.op = "connect"
    /\ last'.inst = i
    /\ last'.raised = ""

\* C3: a later connect() replaces the three mappings: a name reachable
\* before and absent from the new descriptors is not reachable after, and
\* every name reachable after maps to a proxy built by this connect(), not
\* to one that existed before.
C3_ConnectReplaces ==
    [][\A i \in Insts :
         Reconnects(i) =>
           \A cat \in Categories :
             /\ \A n \in DOMAIN self[i][cat] :
                  n \notin DOMAIN Descriptors(last'.answer[1], cat)
                    => n \notin DOMAIN self'[i][cat]
             /\ \A n \in DOMAIN self'[i][cat] :
                  self'[i][cat][n] \notin created]_vars

\* A later connect() has dropped a parameter added by add_parameter and a
\* function of the earlier connect(), and has rebuilt a method whose name
\* both connects returned.
C3_Witness ==
    /\ last.op = "connect"
    /\ last.raised = ""
    /\ LET i == last.inst
       IN /\ \E p \in created : /\ Owner(p) = i
                                /\ p.type = "RemoteParameter"
                                /\ p.oid[1] < self[i]._id
                                /\ \A q \in created : q.oid[1] = p.oid[1] => q = p
                                /\ p.oid[2] \notin DOMAIN self[i].parameters
          /\ \E p \in created : /\ Owner(p) = i
                                /\ p.type = "RemoteMethod"
                                /\ p.oid[1] < self[i]._id
                                /\ p.oid[2] \in DOMAIN self[i]._methods

\* The keys of a list.
Range(seq) == {seq[k] : k \in 1..Len(seq)}

\* A dict cut down to the keys in S.
Restrict(d, S) == [k \in DOMAIN d \cap S |-> d[k]]

\* C4: Manager acquisition gets exactly the supplied keywords named in the
\* class's shared-key list, and every Manager.connect of the instrument (the
\* constructor's and any later one) gets exactly the others.
C4_KwargsPartition ==
    last.op \in {"__init__", "connect"} =>
      LET inp == ctor[last.inst]
          listed == Range(shared_kwargs_of(inp.instrument_class))
      IN \A k \in 1..Len(last.log) :
           /\ last.log[k].ev = "get_instrument_server_manager"
                => last.log[k].shared_kwargs = Restrict(inp.kwargs, listed)
           /\ last.log[k].ev = "connect"
                => /\ last.log[k].kwargs = Restrict(inp.kwargs, KwKeys \ listed)
                   /\ DOMAIN last.log[k].kwargs \cap DOMAIN self[last.inst]._shared_kwargs = {}
                   /\ DOMAIN last.log[k].kwargs \cup DOMAIN self[last.inst]._shared_kwargs
                        = DOMAIN inp.kwargs

\* A later connect() of an instrument constructed with a shared and an
\* instance keyword.
C4_Witness ==
    /\ last.op = "connect"
    /\ Events(last.log, "connect") # {}
    /\ DOMAIN self[last.inst]._shared_kwargs = {"visa_address"}
    /\ DOMAIN self[last.inst]._kwargs = {"range"}

\* C5: without a server name the constructor calls default_server_name once,
\* with all its keyword arguments, before acquiring the Manager, and acquires
\* it under the name returned; with a server name it does not call
\* default_server_name and acquires the Manager under the name given.
C5_ServerIdentity ==
    last.op = "__init__" =>
      LET inp == ctor[last.inst]
          asked == Events(last.log, "default_server_name")
          acquired == Events(last.log, "get_instrument_server_manager")
      IN /\ Cardinality(acquired) = 1
         /\ IF inp.server_name = ""
            THEN /\ Cardinality(asked) = 1
                 /\ \A a \in asked :
                      /\ last.log[a].kwargs = inp.kwargs
                      /\ last.log[a].cls = inp.instrument_class
                      /\ \A g \in acquired :
                           /\ a < g
                           /\ last.log[g].server_name =
                                default_server_name(inp.instrument_class, inp.kwargs)
            ELSE /\ asked = {}
                 /\ \A g \in acquired : last.log[g].server_name = inp.server_name

\* A constructor call without a server name whose keywords include a shared
\* one, so that the name depends on it.
C5_Witness ==
    /\ last.op = "__init__"
    /\ ctor[last.inst].server_name = ""
    /\ DOMAIN self[last.inst]._shared_kwargs # {}
    /\ default_server_name(ctor[last.inst].instrument_class, ctor[last.inst].kwargs)
         # default_server_name(ctor[last.inst].instrument_class,
                               self[last.inst]._kwargs)

\* C6: a constructor that raised leaves the proxy out of its class's
\* instance registry.
C6_FailedConstructionUnregistered ==
    last.op = "__init__" /\ last.raised # "" =>
      last.inst \notin registry[ctor[last.inst].instrument_class]

\* C7: a close() that found the worker not alive called the Manager not at
\* all, and the instrument is not in its class's registry after it.
C7_CloseDeadWorker ==
    last.op = "close"
      /\ (\E k \in Events(last.log, "active_children") : ~last.log[k].alive)
    => /\ ~CallsManager(last.log)
       /\ last.raised = ""
       /\ last.inst \notin registry[self[last.inst]._instrument_class]

\* A close() of an instrument whose worker had exited.
C7_Witness ==
    /\ last.op = "close"
    /\ \E k \in Events(last.log, "active_children") : ~last.log[k].alive

\* C8: in close() every delete comes after a liveness check, a delete is
\* sent iff the worker was reported alive, and then it is sent once, for the
\* instrument's remote id, before the Manager reference is dropped.
C8_CloseOrder ==
    last.op = "close" =>
      LET log == last.log
          checks == Events(log, "active_children")
          deletes == Events(log, "delete")
          drops == Events(log, "del _manager")
      IN /\ \A d \in deletes : \E c \in checks : c < d
         /\ \A d \in drops : \E c \in checks : c < d
         /\ deletes # {} <=> \E c \in checks : log[c].alive
         /\ Cardinality(deletes) <= 1
         /\ \A d \in deletes : /\ log[d].id = self[last.inst]._id
                               /\ \A k \in drops : d < k

\* A close() that sent the delete and then dropped the Manager reference.
C8_Witness ==
    /\ last.op = "close"
    /\ Events(last.log, "delete") # {}
    /\ Events(last.log, "del _manager") # {}

\* C9: after every close() the instrument holds no Manager reference and is
\* not in its class's registry.
C9_CloseAlwaysDrops ==
    last.op = "close" =>
      /\ self[last.inst]._manager = <<>>
      /\ last.inst \notin registry[self[last.inst]._instrument_class]

\* The operations that cannot be carried out without the Manager.
NeedsManager ==
    {"connect", "add_parameter", "add_function", "restart", "method", "get",
     "set", "call"}

\* close() has returned on instrument i.
Closed(i) == phase[i] = "open" /\ self[i]._manager = <<>>

\* C10: once close() has returned on an instrument, no operation on it or on
\* a proxy it created calls the Manager, and those that need the Manager raise.
C10_NoManagerAfterClose ==
    [][\A i \in Insts :
         Closed(i) /\ last' # last /\ last'.inst = i =>
           /\ ~CallsManager(last'.log)
           /\ last'.op \in NeedsManager => last'.raised # ""]_vars

\* A get() on a parameter proxy, built before the close(), of an instrument
\* on which close() has returned.
C10_Witness ==
    /\ last.op = "get"
    /\ Closed(last.inst)
    /\ last.target \in created
    /\ last.raised = "AttributeError"

\* C11: a restart() does what close() does (asks the Manager to delete the
\* remote object exactly when the worker is an active child, drops the
\* Manager reference, leaves the registry) and then fails, and never calls
\* the Manager's restart.
C11_RestartClosesThenFails ==
    last.op = "restart" =>
      /\ last.raised # ""
      /\ Events(last.log, "restart") = {}
      /\ self[last.inst]._manager = <<>>
      /\ last.inst \notin registry[self[last.inst]._instrument_class]
      /\ \A k \in Events(last.log, "active_children") :
           last.log[k].alive <=> Events(last.log, "delete") # {}

\* The last operation was instrument[key].
Indexed == last.op = "getitem"

\* C12: instrument[name] with a name that is neither a parameter nor a
\* function fails with a lookup error whose message names both "parameters"
\* and "functions".
C12_MissingNamesBothCategories ==
    /\ Indexed
    /\ last.target \notin DOMAIN self[last.inst].parameters
    /\ last.target \notin DOMAIN self[last.inst].functions
    => /\ last.raised \in {"KeyError", "LookupError"}
       /\ "parameters" \in Range(last.message)
       /\ "functions" \in Range(last.message)

\* C13: instrument[name] returns the parameter of that name if there is one,
\* else the function of that name if there is one, and else fails, also for
\* a name that is a method.
C13_IndexOrder ==
    Indexed =>
      LET obj == self[last.inst]
          key == last.target
      IN /\ key \in DOMAIN obj.parameters
              => last.raised = "" /\ last.ret = <<obj.parameters[key]>>
         /\ key \notin DOMAIN obj.parameters /\ key \in DOMAIN obj.functions
              => last.raised = "" /\ last.ret = <<obj.functions[key]>>
         /\ key \notin DOMAIN obj.parameters /\ key \notin DOMAIN obj.functions
              => last.raised # "" /\ last.ret = <<>>

\* A name that is a method, a parameter and a function was looked up by index.
C13_Witness ==
    /\ Indexed
    /\ last.target \in DOMAIN self[last.inst]._methods
    /\ last.target \in DOMAIN self[last.inst].parameters
    /\ last.target \in DOMAIN self[last.inst].functions

\* A name that is a method only was looked up by index.
C13_MethodOnly ==
    /\ Indexed
    /\ last.target \in DOMAIN self[last.inst]._methods
    /\ last.target \notin DOMAIN self[last.inst].parameters
    /\ last.target \notin DOMAIN self[last.inst].functions

\* The last operation was an add_parameter or add_function.
Added == last.op \in {"add_parameter", "add_function"}

\* The mapping add_parameter or add_function stores into.
AddCategory(op) == IF op = "add_parameter" THEN "parameters" ELSE "functions"

\* Proxy p is held by instrument i under key k of category cat.
Holds(i, cat, k, p) == k \in DOMAIN self[i][cat] /\ self[i][cat][k] = p

\* Proxy p of instrument i was put there by add_parameter or add_function
\* since the instrument's last connect().
AddedSinceConnect(i, p) ==
    /\ \E cat \in {"parameters", "functions"} : Holds(i, cat, p.oid[2], p)
    /\ p.oid[1] > self[i]._id

\* The one ask of instrument i for func_name with these arguments.
OneAsk(i, func_name, args, kwargs) ==
    <<EvAsk(self[i]._manager[1], self[i]._id, func_name, args, kwargs)>>

\* The proxy of category cat's class built for name on instrument i named
\* iname from the descriptor attrs.
ProxyBuilt(cat, name, i, iname, attrs, born) ==
    IF cat = "parameters" THEN RemoteParameter(name, i, iname, attrs, born)
    ELSE IF cat = "functions" THEN RemoteFunction(name, i, iname, attrs, born)
    ELSE RemoteMethod(name, i, iname, attrs, born)

\* C14: an add_parameter or add_function on an instrument that has its
\* Manager makes exactly one Manager call, the ask (operation, name, kwargs);
\* when it returns, the name maps to one proxy nothing held before, built
\* for that name from the descriptor answered; and a get, set or call on a
\* proxy added so makes exactly one Manager call, an ask for that name.
C14_AddIsImmediate ==
    /\ Added /\ self[last.inst]._manager # <<>> =>
         LET obj == self[last.inst]
             cat == AddCategory(last.op)
         IN /\ last.log = OneAsk(last.inst, Str(last.op), <<Str(last.target)>>,
                                 last.kwargs)
            /\ last.raised = "" =>
                 /\ last.target \in DOMAIN obj[cat]
                 /\ obj[cat][last.target] =
                      ProxyBuilt(cat, last.target, last.inst, obj.name,
                                 last.answer[1], clock)
                 /\ \A q \in created :
                      q.oid[1] = clock => q = obj[cat][last.target]
                 /\ \A c \in Categories : \A k \in DOMAIN obj[c] :
                      obj[c][k] = obj[cat][last.target] => c = cat /\ k = last.target
    /\ /\ last.op \in {"get", "set", "call"}
       /\ self[last.inst]._manager # <<>>
       /\ AddedSinceConnect(last.inst, last.target)
       => /\ Len(last.log) = 1
          /\ last.log[1].ev = "ask"
          /\ last.log[1].func = Str(last.op)
          /\ last.log[1].args[1] = Str(last.target.oid[2])

\* A get that returned, on a parameter added by add_parameter under a name
\* that was no parameter before.
C14_Witness ==
    /\ last.op = "get"
    /\ last.raised = ""
    /\ AddedSinceConnect(last.inst, last.target)
    /\ \A q \in created : q.type = "RemoteParameter" /\ q.oid[2] = last.target.oid[2]
                            => q = last.target

\* A step that is the second of two add_parameter (or two add_function) in a
\* row of the same name on the same instrument, both returning.
AddsAgain ==
    /\ Added
    /\ last.raised = ""
    /\ last'.op = last.op
    /\ last'.inst = last.inst
    /\ last'.target = last.target
    /\ last'.raised = ""
    /\ clock' = clock + 1

\* C15: of two add_parameter (or add_function) of one name, each asks the
\* Manager once, and after the second the mapping has the names it had, the
\* name mapping to the proxy built from the second descriptor, and the first
\* call's proxy is held by the instrument no more.
C15_SecondAddReplaces ==
    [][AddsAgain =>
         LET i == last.inst
             cat == AddCategory(last.op)
             first == self[i][cat][last.target]
         IN /\ Len(last.log) = 1 /\ last.log[1].ev = "ask"
            /\ last'.log = <<EvAsk(self[i]._manager[1], self[i]._id, Str(last.op),
                                   <<Str(last.target)>>, last'.kwargs)>>
            /\ DOMAIN self'[i][cat] = DOMAIN self[i][cat]
            /\ self'[i][cat][last.target] =
                 ProxyBuilt(cat, last.target, i, self[i].name,
                            last'.answer[1], clock')
            /\ first \notin Proxies(self'[i])]_vars

\* After an add_parameter of a name that an earlier add_parameter had added
\* with another descriptor.
C15_Witness ==
    /\ last.op = "add_parameter"
    /\ last.raised = ""
    /\ \E q \in created :
         /\ q.type = "RemoteParameter"
         /\ q.oid[2] = last.target
         /\ q.oid[1] > self[last.inst]._id
         /\ q.oid[1] < clock
         /\ q.attr # self[last.inst].parameters[last.target].attr

\* A step that is a get() of the parameter whose set(x) returned just before,
\* on an instrument that has its Manager.
SetThenGet ==
    /\ last.op = "set"
    /\ last.raised = ""
    /\ last'.op = "get"
    /\ last'.target = last.target
    /\ self[last.inst]._manager # <<>>

\* C16: set(x) and then get() on a parameter make two Manager calls, the ask
\* ('set', name, x) and then the ask ('get', name), and the get() returns
\* what the Manager answered the second with.
C16_SetThenGet ==
    [][SetThenGet =>
         LET i == last.inst
             name == Str(last.target.oid[2])
         IN /\ last.log = OneAsk(i, Str("set"), <<name>> \o last.args, NoDict)
            /\ last'.log = OneAsk(i, Str("get"), <<name>>, NoDict)
            /\ last'.raised = "" => last'.answer # <<>> /\ last'.ret = last'.answer]_vars

\* A set(x) has returned, and a get() of the same parameter that returns
\* another value than x can follow.
C16_Witness ==
    /\ last.op = "set"
    /\ last.raised = ""
    /\ self[last.inst]._manager # <<>>
    /\ ENABLED (/\ ParameterGet
                /\ last'.target = last.target
                /\ last'.raised = ""
                /\ last'.ret # last.args)

\* The operations the proxies carry out without the server.
LocalOps == {"validate", "sweep", "index", "function_validate"}

\* C17: validate, sweep and indexing of a RemoteParameter and validate of a
\* RemoteFunction make no Manager ask and no Manager write, whatever their
\* arguments and whatever the state of the instrument.
C17_LocalOpsStayLocal ==
    last.op \in LocalOps =>
      /\ Events(last.log, "ask") = {}
      /\ Events(last.log, "write") = {}

\* A validate() of a parameter of an instrument that has its Manager and a
\* living worker.
C17_Witness ==
    /\ last.op = "validate"
    /\ last.target.type = "RemoteParameter"
    /\ IsAlive(last.inst)

\* The operations that are an ask of the Manager.
AskOps ==
    {"method", "get", "set", "getattr_", "setattr", "callattr", "snapshot",
     "_latest", "call", "add_parameter", "add_function"}

\* The operation recorded in l asked the Manager and the Manager reported
\* failure.
ManagerFailed(l) ==
    /\ l.op \in AskOps
    /\ Events(l.log, "ask") # {}
    /\ l.answer = <<>>

\* C18: an operation whose ask the Manager fails ends with the Manager's
\* error, having made that one Manager call and no other, returning nothing
\* and leaving the instrument and its proxies as they were.
C18_FailurePropagates ==
    [][ManagerFailed(last') =>
         /\ last'.raised = "RemoteError"
         /\ Len(last'.log) = 1
         /\ last'.ret = <<>>
         /\ self' = self
         /\ created' = created]_vars

\* An add_parameter whose ask the Manager failed.
C18_Witness ==
    /\ ManagerFailed(last)
    /\ last.op = "add_parameter"
    /\ last.raised = "RemoteError"

\* The Manager requests in a log.
Requests(log) == Events(log, "ask") \cup Events(log, "write")

\* C19: every ask and every write of an operation of an instrument or of
\* one of its proxies goes to that instrument's Manager, in category 'cmd',
\* with the remote id the instrument's latest connect() was given, which is
\* the remote id of no other instrument.
C19_OwnManagerOwnId ==
    \A k \in Requests(last.log) :
      LET msg == last.log[k]
      IN /\ self[last.inst]._manager = <<msg.manager>>
         /\ msg.cat = "cmd"
         /\ msg.id = self[last.inst]._id
         /\ \A j \in Insts \ {last.inst} : phase[j] = "open" => msg.id # self[j]._id

\* An ask of a proxy of the second instrument while both instruments are
\* connected to the same Manager, the first one connected again since.
C19_Witness ==
    /\ \A j \in Insts : phase[j] = "open"
    /\ self["i1"]._manager = self["i2"]._manager
    /\ self["i1"]._id > self["i2"]._id
    /\ last.inst = "i2"
    /\ Events(last.log, "ask") # {}

\* Whether sequence s begins with sequence t.
StartsWith(s, t) == Len(s) >= Len(t) /\ SubSeq(s, 1, Len(t)) = t

\* The category a proxy of this class is stored in.
CategoryOf(p) ==
    IF p.type = "RemoteMethod" THEN "_methods"
    ELSE IF p.type = "RemoteParameter" THEN "parameters"
    ELSE "functions"

\* Request msg of operation op names capability k.
NamesKey(op, msg, k) ==
    IF op = "method" THEN msg.func = Str(k)
    ELSE IF op \in {"get", "set", "call"} THEN msg.args[1] = Str(k)
    ELSE StartsWith(msg.args[1], <<k, ".">>)

\* C20: a proxy stored under key k keeps the name k and its owner whatever
\* its descriptor carries, and every request it makes names k: as the
\* method, as the parameter or function, or before the dot of the path.
C20_KeyIsRemoteName ==
    /\ \A i \in Insts, cat \in Categories : \A k \in DOMAIN self[i][cat] :
         /\ self[i][cat][k].attr["name"] = Str(k)
         /\ self[i][cat][k].attr["_instrument"] = Ref(i)
    /\ \A k \in Names :
         /\ last.op \in {"method", "get", "set", "call", "getattr_"}
         /\ Holds(last.inst, CategoryOf(last.target), k, last.target)
         => \A e \in Events(last.log, "ask") : NamesKey(last.op, last.log[e], k)

\* A get() of the parameter stored under one name asked the Manager for
\* another name.
C20_AsksOtherName ==
    /\ last.op = "get"
    /\ \E k \in Names :
         /\ Holds(last.inst, "parameters", k, last.target)
         /\ \E e \in Events(last.log, "ask") : last.log[e].args[1] # Str(k)

\* The operation recorded in last was made on an instrument that has its
\* Manager.
Reaches == last.inst \in Insts /\ self[last.inst]._manager # <<>>

\* The name proxy p was made for.
NameOf(p) == Str(p.oid[2])

\* What an operation that is one ask returns: the Manager's answer when
\* there is one, and else the Manager's error.
ReturnsAnswer ==
    IF last.answer = <<>> THEN last.raised = "RemoteError" /\ last.ret = <<>>
    ELSE last.raised = "" /\ last.ret = last.answer

\* C21: a call of a RemoteMethod makes exactly one Manager call, the ask of
\* the method's name with the caller's positional and keyword arguments as
\* given, and returns what that ask returned.
C21_MethodCallForwards ==
    last.op = "method" /\ Reaches =>
      /\ last.log = OneAsk(last.inst, NameOf(last.target), last.args, last.kwargs)
      /\ ReturnsAnswer

\* A method called with a positional and a keyword argument returned the
\* Manager's answer.
C21_Witness ==
    /\ last.op = "method"
    /\ Reaches
    /\ last.args # <<>>
    /\ DOMAIN last.kwargs # {}
    /\ last.raised = ""
    /\ last.ret # <<>>

\* C22: function.call(args) and function(args) are the same: whatever one
\* of them can do from a state (the one ask ('call', name, args), its
\* outcome and its result), the other can do from that state too.
C22_CallAliasEquivalent ==
    /\ last.op = "call" =>
         ENABLED (FunctionCallAlias /\ last' = [last EXCEPT !.op = "call_alias"])
    /\ last.op = "call_alias" =>
         ENABLED (FunctionCall /\ last' = [last EXCEPT !.op = "call"])
    /\ last.op \in {"call", "call_alias"} /\ Reaches =>
         /\ last.log = OneAsk(last.inst, Str("call"),
                              <<NameOf(last.target)>> \o last.args, NoDict)
         /\ ReturnsAnswer

\* function.call(x) returned the Manager's answer.
C22_Witness ==
    /\ last.op = "call_alias"
    /\ Reaches
    /\ last.args # <<>>
    /\ last.raised = ""
    /\ last.ret # <<>>

\* The dotted path of attribute attr of the capability proxy p was made for.
Dotted(p, attr) == NameOf(p) \o <<".">> \o attr

\* C23: getattr(path), setattr(path, value) and callattr(path, args, kwargs)
\* of a RemoteParameter each make exactly one Manager call, the ask
\* 'getattr', 'setattr' or 'callattr' of name.path, followed by the value or
\* the call's arguments as given; getattr and callattr return what the ask
\* returned.
C23_AttrAccessForwards ==
    /\ last.op = "getattr_" /\ Reaches =>
         /\ last.log = OneAsk(last.inst, Str("getattr"),
                              <<Dotted(last.target, last.args[1])>>, NoDict)
         /\ ReturnsAnswer
    /\ last.op = "setattr" /\ Reaches =>
         /\ last.log = OneAsk(last.inst, Str("setattr"),
                              <<Dotted(last.target, last.args[1]), last.args[2]>>,
                              NoDict)
         /\ last.ret = <<>>
         /\ last.raised = "" <=> last.answer # <<>>
    /\ last.op = "callattr" /\ Reaches =>
         /\ last.log = OneAsk(last.inst, Str("callattr"),
                              <<Dotted(last.target, last.args[1])>> \o Tail(last.args),
                              last.kwargs)
         /\ ReturnsAnswer

\* A callattr with a positional and a keyword argument returned the
\* Manager's answer.
C23_Witness ==
    /\ last.op = "callattr"
    /\ Reaches
    /\ Len(last.args) > 1
    /\ DOMAIN last.kwargs # {}
    /\ last.raised = ""
    /\ last.ret # <<>>

\* The operations that read the parameter's state on the server.
StateReads == {"snapshot", "_latest", "get_latest"}

\* C24: every snapshot(update) makes the one ask ('callattr',
\* name.snapshot, update) and every read of the latest value makes the one
\* ask ('callattr', name._latest), whatever was done before, and returns
\* what the Manager answered (the latest-value holder: the value in it).
C24_ReadsAlwaysAsk ==
    last.op \in StateReads /\ Reaches =>
      /\ last.log =
           OneAsk(last.inst, Str("callattr"),
                  IF last.op = "snapshot"
                  THEN <<NameOf(last.target) \o <<".snapshot">>, last.args[1]>>
                  ELSE <<NameOf(last.target) \o <<"._latest">> >>,
                  NoDict)
      /\ IF last.op = "get_latest" /\ last.answer # <<>>
         THEN last.raised = "" /\ last.ret = <<last.answer[1].value>>
         ELSE ReturnsAnswer

\* A snapshot() has returned, and the same snapshot() called again asks the
\* Manager again and returns another value.
C24_Witness ==
    /\ last.op = "snapshot"
    /\ Reaches
    /\ last.args = <<FALSE>>
    /\ last.raised = ""
    /\ ENABLED (/\ ParameterSnapshot
                /\ last'.target = last.target
                /\ last'.args = last.args
                /\ Len(last'.log) = 1
                /\ last'.raised = ""
                /\ last'.ret # last.ret)

\* The separator between the heading and the original documentation.
Separator == "\n---\n\n"

\* Text doc is a heading that names the class type, the name nm and the
\* owner's name iname, then the separator, then the text original.
Rewritten(doc, type, nm, iname, original) ==
    LET n == Len(doc) - Len(original)
        head == SubSeq(doc, 1, n - 1)
    IN /\ n >= 1
       /\ SubSeq(doc, n + 1, Len(doc)) = original
       /\ doc[n] = Separator
       /\ type \in Range(head)
       /\ Range(nm) \subseteq Range(head)
       /\ Range(iname) \subseteq Range(head)

\* The attribute names of the attribute map attrs.
Keys(attrs) == {attrs[k][1] : k \in 1..Len(attrs)}

\* Proxy p of an instrument named iname has every entry of the attribute map
\* attrs as it is in the map, the documentation rewritten with the proxy's
\* name if it is not empty and not there if the map has none.
Copied(p, iname, attrs) ==
    /\ "__doc__" \notin Keys(attrs) => "__doc__" \notin DOMAIN p.attr
    /\ \A k \in 1..Len(attrs) :
         LET attribute == attrs[k][1]
             value == attrs[k][2]
         IN /\ attribute \in DOMAIN p.attr
            /\ IF attribute = "__doc__" /\ value # <<>>
               THEN Rewritten(p.attr[attribute], p.type, p.attr["name"], iname, value)
               ELSE p.attr[attribute] = value

\* C25 as stated: a proxy has every entry of its attribute map as it is in
\* the map, except the documentation: present and not empty, it is the
\* heading of class, name and owner's name, the separator and the original
\* text; absent or empty, it is not rewritten.
C25_AttrsCopiedDocRewritten ==
    /\ Added /\ last.raised = "" =>
         Copied(self[last.inst][AddCategory(last.op)][last.target],
                self[last.inst].name, last.answer[1])
    /\ Connected =>
         \A cat \in Categories : \A n \in DOMAIN self[last.inst][cat] :
           Copied(self[last.inst][cat][n], self[last.inst].name,
                  Descriptors(last.answer[1], cat)[n])

\* The name a proxy made for key has when entry k of attrs is copied: the
\* map's 'name' entry if that was copied before, else the key.
NameWhenCopied(attrs, k, key) ==
    LET before == {j \in 1..(k - 1) : attrs[j][1] = "name"}
    IN IF before = {} THEN Str(key) ELSE attrs[CHOOSE j \in before : TRUE][2]

\* Proxy p, made for key of an instrument named iname, has the entries of
\* the attribute map attrs, the documentation rewritten if it is not empty
\* with the name the proxy has at that moment; a parameter has its
\* latest-value holder as get_latest, whatever the map has under that name;
\* and the proxy has nothing else but its name and its owner.
CopiedButHolder(p, key, iname, attrs) ==
    LET holder == IF p.type = "RemoteParameter" THEN {"get_latest"} ELSE {}
    IN /\ DOMAIN p.attr = {"name", "_instrument"} \cup Keys(attrs) \cup holder
       /\ \A a \in holder : p.attr[a] = GetLatest
       /\ \A k \in 1..Len(attrs) :
            LET attribute == attrs[k][1]
                value == attrs[k][2]
            IN IF attribute \in holder
               THEN TRUE
               ELSE IF attribute = "__doc__" /\ value # <<>>
               THEN Rewritten(p.attr[attribute], p.type,
                              NameWhenCopied(attrs, k, key), iname, value)
               ELSE p.attr[attribute] = value

\* C25, amended: a proxy has every entry of its attribute map as it is in
\* the map, except the documentation (present and not empty, it is the
\* heading of class, the name the proxy has when the entry is copied and
\* the owner's name, the separator and the original text; absent or empty,
\* it is not rewritten) and except, on a parameter, an entry named
\* get_latest, in whose place the parameter has its latest-value holder.
C25_CopiedButHolder ==
    /\ Added /\ last.raised = "" =>
         CopiedButHolder(self[last.inst][AddCategory(last.op)][last.target],
                         last.target, self[last.inst].name, last.answer[1])
    /\ Connected =>
         \A cat \in Categories : \A n \in DOMAIN self[last.inst][cat] :
           CopiedButHolder(self[last.inst][cat][n], n, self[last.inst].name,
                           Descriptors(last.answer[1], cat)[n])

\* A parameter was added from a descriptor that carries a get_latest entry
\* and another attribute: it has the holder and the other attribute.
C25_HolderWitness ==
    /\ last.op = "add_parameter"
    /\ last.raised = ""
    /\ last.answer = <<LatestAttrs>>
    /\ self[last.inst].parameters[last.target].attr["get_latest"] = GetLatest
    /\ self[last.inst].parameters[last.target].attr["units"] = Str("V")

\* A parameter was added from a descriptor whose documentation is empty and
\* which has another attribute.
C25_Witness ==
    /\ last.op = "add_parameter"
    /\ last.raised = ""
    /\ last.answer = <<EmptyDocAttrs>>
    /\ self[last.inst].parameters[last.target].attr["__doc__"] = <<>>

\* A function was added from a descriptor whose documentation is not empty.
C25_DocRewritten ==
    /\ last.op = "add_function"
    /\ last.raised = ""
    /\ last.answer = <<DocUnitAttrs>>
    /\ Len(self[last.inst].functions[last.target].attr["__doc__"]) > 1

\* Every event of kind a in the log is before every event of kind b.
Before(log, a, b) == \A j \in Events(log, a), k \in Events(log, b) : j < k

\* The last operation was a constructor call.
Constructed == last.op = "__init__"

\* C26: a constructor resolves the server identity (from the keyword
\* arguments as given), partitions the keyword arguments, acquires the
\* Manager (with the shared part), registers the proxy, and connects (with
\* the rest), in this order: the registration is after the acquisition and
\* before the Manager's connect.
C26_ConstructionOrder ==
    Constructed =>
      LET log == last.log
          inp == ctor[last.inst]
          shared == Range(shared_kwargs_of(inp.instrument_class))
      IN /\ Before(log, "default_server_name", "get_instrument_server_manager")
         /\ Before(log, "get_instrument_server_manager", "record_instance")
         /\ Before(log, "record_instance", "connect")
         /\ Events(log, "connect") # {} => Events(log, "record_instance") # {}
         /\ Events(log, "record_instance") # {}
              => Events(log, "get_instrument_server_manager") # {}
         /\ \A k \in Events(log, "default_server_name") : log[k].kwargs = inp.kwargs
         /\ \A k \in Events(log, "get_instrument_server_manager") :
              log[k].shared_kwargs = Restrict(inp.kwargs, shared)
         /\ \A k \in Events(log, "connect") :
              log[k].kwargs = Restrict(inp.kwargs, KwKeys \ shared)
         /\ last.raised = "" =>
              /\ Events(log, "connect") # {}
              /\ Events(log, "default_server_name") # {} <=> inp.server_name = ""

\* A constructor that resolved the default server name, had shared keyword
\* arguments to set apart, and connected.
C26_Witness ==
    /\ Constructed
    /\ last.raised = ""
    /\ Events(last.log, "default_server_name") # {}
    /\ \E k \in Events(last.log, "get_instrument_server_manager") :
         DOMAIN last.log[k].shared_kwargs # {}
    /\ \E k \in Events(last.log, "connect") : DOMAIN last.log[k].kwargs # {}

\* C27: of two close() in a row on one instrument, the second calls the
\* Manager for nothing (so no second delete is sent) and does not ask
\* whether the worker lives.
C27_DestroyedAtMostOnce ==
    [][/\ last.op = "close"
       /\ last'.op = "close"
       /\ last'.inst = last.inst
       => /\ ~CallsManager(last'.log)
          /\ Events(last'.log, "active_children") = {}]_vars

\* The operations of the capability proxies that go to the server.
ProxyOps ==
    {"method", "get", "set", "getattr_", "setattr", "callattr", "snapshot",
     "_latest", "call", "call_alias"}

\* C28: an operation of a capability proxy on an instrument that has its
\* Manager makes exactly one Manager call, an ask, and no write, and ends as
\* the Manager's answer to it says: it returns if the Manager answered and
\* raises if the Manager failed, set included.
C28_OneBlockingAsk ==
    last.op \in ProxyOps /\ Reaches =>
      /\ Len(last.log) = 1
      /\ Cardinality(Events(last.log, "ask")) = 1
      /\ Events(last.log, "write") = {}
      /\ last.raised = "" <=> last.answer # <<>>

\* A set() that raised the error the Manager answered its ask with.
C28_Witness ==
    /\ last.op = "set"
    /\ Reaches
    /\ Events(last.log, "ask") # {}
    /\ last.raised = "RemoteError"

\* The remote ids of instrument i that a later connect() has superseded
\* are among the numbers under which proxies of i were made before its
\* present id was given.
Superseded(i) ==
    {p.oid[1] : p \in {q \in created : Owner(q) = i /\ q.oid[1] < self[i]._id}}

\* C29: every delete request of a close() (also the one restart() starts
\* with) names the remote id of the instrument's latest connect(), and never
\* an id a later connect() has superseded.
C29_DeletesCurrentId ==
    last.op \in {"close", "restart"} =>
      \A k \in Events(last.log, "delete") :
        /\ last.log[k].id = self[last.inst]._id
        /\ last.log[k].id \notin Superseded(last.inst)
        /\ last.log[k].manager = Manager(self[last.inst]._server_name,
                                         self[last.inst]._shared_kwargs)

\* A close() that sent a delete, on an instrument connected more than once.
C29_Witness ==
    /\ last.op = "close"
    /\ Events(last.log, "delete") # {}
    /\ Superseded(last.inst) # {}
    /\ last.raised = ""

\* A step that is an add_parameter or add_function.
AddStep ==
    /\ last'.op \in {"add_parameter", "add_function"}
    /\ clock' # clock \/ last' # last

\* C30: an add_parameter(name) or add_function(name) changes at most the
\* entry for name of its own mapping: the mapping's other entries, every
\* other attribute of the instrument (the two other mappings, the remote
\* id, the Manager reference, the stored construction arguments), the
\* registry and every other instrument are as they were.
C30_AddFrame ==
    [][AddStep =>
         LET i == last'.inst
             n == last'.target
             cat == AddCategory(last'.op)
         IN /\ \A f \in DOMAIN self[i] \ {cat} : self'[i][f] = self[i][f]
            /\ DOMAIN self'[i][cat] \in {DOMAIN self[i][cat],
                                         DOMAIN self[i][cat] \cup {n}}
            /\ \A k \in DOMAIN self[i][cat] \ {n} : self'[i][cat][k] = self[i][cat][k]
            /\ \A j \in Insts \ {i} : self'[j] = self[j]
            /\ registry' = registry
            /\ ctor' = ctor
            /\ phase' = phase]_vars

\* After an add_parameter of a new name on an instrument that has other
\* parameters, methods and functions.
C30_Witness ==
    /\ last.op = "add_parameter"
    /\ last.raised = ""
    /\ DOMAIN self[last.inst].parameters \ {last.target} # {}
    /\ DOMAIN self[last.inst]._methods # {}
    /\ DOMAIN self[last.inst].functions # {}
    /\ \A q \in created : q.type = "RemoteParameter" /\ q.oid[2] = last.target
                            => q.oid[1] = clock

\* The operation recorded in l is an add_parameter, an add_function or a
\* connect() after construction whose Manager call failed.
ManagerCallFailed(l) ==
    /\ l.op \in {"add_parameter", "add_function", "connect"}
    /\ CallsManager(l.log)
    /\ l.raised # ""

\* C31: an add_parameter, an add_function or a later connect() whose Manager
\* call failed leaves the instrument as it was: its name, its remote id and
\* its three capability mappings are the ones it had before the call, no
\* entry added, replaced or removed, and no proxy was created.
C31_FailedCallKeepsState ==
    [][ManagerCallFailed(last') =>
         LET i == last'.inst
         IN /\ self'[i].name = self[i].name
            /\ self'[i]._id = self[i]._id
            /\ self'[i]._methods = self[i]._methods
            /\ self'[i].parameters = self[i].parameters
            /\ self'[i].functions = self[i].functions
            /\ created' = created]_vars

\* A connect() after construction that the Manager failed, on an instrument
\* that holds proxies in its three mappings, one of them added after its
\* last successful connect().
C31_Witness ==
    /\ ManagerCallFailed(last)
    /\ last.op = "connect"
    /\ last.raised = "ManagerError"
    /\ self[last.inst]._id # 0
    /\ DOMAIN self[last.inst]._methods # {}
    /\ DOMAIN self[last.inst].functions # {}
    /\ \E n \in DOMAIN self[last.inst].parameters :
         self[last.inst].parameters[n].oid[1] > self[last.inst]._id

\* The instruments of capability class cls whose construction completed.
Completed(cls) == {i \in Insts : phase[i] = "open" /\ ctor[i].instrument_class = cls}

\* C32: over sequences of constructions, with close() called on none of the
\* proxies, the registry of every capability class holds exactly the proxies
\* of that class whose construction completed, and instances() of each of
\* them is that registry collection.
C32_RegistryExact ==
    \A cls \in Classes :
      /\ registry[cls] = Completed(cls)
      /\ \A i \in Completed(cls) : instances(self[i], registry) = registry[cls]
====
